---- MODULE Spec2Model ----
(***************************************************************************)
(* Model of the web-search / generation orchestration layer:               *)
(*   agent.py        WebSearchTool (provider selection, retried provider   *)
(*                   searches, result normalization)                       *)
(*   llm_service.py  LLMService (generation provider), prompt composition  *)
(*   app.py          provider selector of the UI, get_ai_response          *)
(* JSON values are modelled structurally: a key of a mapping is Absent,    *)
(* Null or carries a value, so dict.get(key, default) can be told apart    *)
(* from a lookup of a key holding null.                                    *)
(***************************************************************************)
EXTENDS Integers, Sequences, FiniteSets, TLC

VARIABLES env, tool, llm, call, contacted, gen, turn, reply

vars == <<env, tool, llm, call, contacted, gen, turn, reply>>

(***************************************************************************)
(* Bounds of the model.                                                    *)
(***************************************************************************)
\* longest upstream result array built from arbitrary items
MaxItems == 2
\* longest upstream result array built from one repeated well-formed item
MaxLong == 6
\* longest list of search results handed to the prompt composer
MaxResults == 3

(***************************************************************************)
(* Program constants.                                                      *)
(***************************************************************************)
\* stop_after_attempt(3)
StopAfterAttempt == 3
\* wait_exponential(multiplier=1, min=4, max=10); exp_base is tenacity's default 2
WaitMultiplier == 1
WaitMin == 4
WaitMax == 10
WaitExpBase == 2

Min(a, b) == IF a <= b THEN a ELSE b
Max(a, b) == IF a >= b THEN a ELSE b

RECURSIVE Pow(_, _)
Pow(b, e) == IF e = 0 THEN 1 ELSE b * Pow(b, e - 1)

(***************************************************************************)
(* JSON values.                                                            *)
(***************************************************************************)
\* a key that the mapping does not contain
Absent == "<absent>"
\* a key present with the JSON value null (Python None)
Null == "<null>"
\* os.getenv of a variable that is not set (Python None)
Unset == "<unset>"

ScoreAbsent == [tag |-> "absent", v |-> 0]
ScoreNull == [tag |-> "null", v |-> 0]
ScoreNum(n) == [tag |-> "num", v |-> n]
\* score=None of a SearchResults
NoScore == [tag |-> "none", v |-> 0]

\* One item of an upstream results array.  Scores are in tenths (9 is 0.9).
Item(t, u, d, c, s, sc) ==
    [mapping |-> TRUE, title |-> t, url |-> u, description |-> d,
     content |-> c, snippet |-> s, score |-> sc]
\* an array element that is no JSON object (a string, a number, null)
NotAMapping ==
    [mapping |-> FALSE, title |-> Absent, url |-> Absent, description |-> Absent,
     content |-> Absent, snippet |-> Absent, score |-> ScoreAbsent]

\* a well-formed item carrying every key either provider reads
ItemBrave == Item("T1", "U1", "D1", "C1", Absent, ScoreNum(9))
\* the item of test_search_brave: its text is under the key snippet
ItemTest == Item("T2", "U2", Absent, Absent, "S2", ScoreNum(8))
\* the score key is present and null
ItemNullScore == Item("T3", "U3", "D3", "C3", Absent, ScoreNull)
\* an empty JSON object: every key is omitted
ItemBare == Item(Absent, Absent, Absent, Absent, Absent, ScoreAbsent)
\* the title key is present and null
ItemNullTitle == Item(Null, "U5", "D5", "C5", Absent, ScoreNum(7))

Items == {ItemBrave, ItemTest, ItemNullScore, ItemBare, ItemNullTitle, NotAMapping}

SeqsUpTo(S, n) == UNION {[1..k -> S] : k \in 0..n}

Repeat(x, n) == [i \in 1..n |-> x]

\* the upstream arrays the model enumerates
ItemSeqs == SeqsUpTo(Items, MaxItems) \cup {Repeat(ItemBrave, n) : n \in 1..MaxLong}

\* A decoded response body.  web: "absent" (no web key), "noresults" (a web
\* object without a results key) or "results" (web.results present, = nested);
\* hasTop: whether the top-level results key is present (= top).
Body(w, n, h, t) == [web |-> w, nested |-> n, hasTop |-> h, top |-> t]

\* the item arrays used where the other array of the body is the long one
FewSeqs == {<<>>, <<ItemTest>>}

Bodies ==
    {Body("results", s, FALSE, <<>>) : s \in ItemSeqs}
    \cup {Body("results", s, TRUE, <<ItemBrave>>) : s \in FewSeqs}
    \cup {Body("absent", <<>>, TRUE, s) : s \in ItemSeqs}
    \cup {Body("noresults", <<>>, TRUE, s) : s \in FewSeqs}
    \cup {Body(w, <<>>, FALSE, <<>>) : w \in {"absent", "noresults"}}

NoBody == Body("absent", <<>>, FALSE, <<>>)

\* What one HTTP GET ends in.  kind: "timeout" (httpx.TimeoutException),
\* "transport" (any other transport error), "http" (an error status, 4xx or
\* 5xx) or "ok" (a success status with a JSON body).
Response(k, st, b) == [kind |-> k, status |-> st, body |-> b]

Failures ==
    {Response("timeout", 0, NoBody), Response("transport", 0, NoBody),
     Response("http", 404, NoBody), Response("http", 503, NoBody)}

Responses == Failures \cup {Response("ok", 200, b) : b \in Bodies}

\* the responses of the lifetime specification: a failure and a success
FewResponses ==
    {Response("timeout", 0, NoBody),
     Response("ok", 200, Body("results", <<ItemBrave>>, FALSE, <<>>))}

NoResponse == Response("none", 0, NoBody)

Queries == {"q1", "q2"}

(***************************************************************************)
(* Normalization of upstream items into SearchResults (agent.py).          *)
(***************************************************************************)
\* Python truthiness of an os.getenv value: None and "" are falsy
Truthy(v) == v # Unset /\ v # ""

\* dict.get(key, default): the default only when the key is not in the mapping
Get(v, default) == IF v = Absent THEN default ELSE v

GetScore(sc, default) == IF sc.tag = "absent" THEN default ELSE sc

SearchResult(t, u, s, sc) == [title |-> t, url |-> u, snippet |-> s, score |-> sc]

\* SearchResults(...) validates: title, url and snippet are str (None is
\* refused), score is Optional[float] (None and numbers are accepted)
Validates(r) ==
    /\ r.title # Null
    /\ r.url # Null
    /\ r.snippet # Null
    /\ r.score.tag \in {"null", "num"}

\* a validated score field: null is stored as None, a number as itself
Stored(r) == [r EXCEPT !.score = IF r.score.tag = "null" THEN NoScore ELSE r.score]

BraveSnippet(item) == Get(item.description, "")

BraveScore_NoDefault(item) == GetScore(item.score, ScoreNull)
BraveScore(item) == GetScore(item.score, ScoreNum(0))

\* the keyword arguments search_brave passes to SearchResults
BraveFields(item) ==
    SearchResult(Get(item.title, ""), Get(item.url, ""), BraveSnippet(item),
                 BraveScore(item))

\* the keyword arguments search_searxng passes to SearchResults; score is not
\* passed and takes the field's default, None
SearxngFields(item) ==
    SearchResult(Get(item.title, ""), Get(item.url, ""), Get(item.content, ""),
                 ScoreNull)

\* One pass of the for loop over an array: item.get raises on an element that
\* is no mapping and SearchResults raises on a field it refuses; either way the
\* inner except prints a warning and the loop goes on without the item.
RECURSIVE BraveLoop(_)
BraveLoop(items) ==
    IF items = <<>> THEN <<>>
    ELSE LET item == Head(items)
             rest == BraveLoop(Tail(items))
         IN IF item.mapping /\ Validates(BraveFields(item))
            THEN <<Stored(BraveFields(item))>> \o rest
            ELSE rest

RECURSIVE SearxngLoop(_)
SearxngLoop(items) ==
    IF items = <<>> THEN <<>>
    ELSE LET item == Head(items)
             rest == SearxngLoop(Tail(items))
         IN IF item.mapping /\ Validates(SearxngFields(item))
            THEN <<Stored(SearxngFields(item))>> \o rest
            ELSE rest

\* data.get("results", [])
TopLevel(body) == IF body.hasTop THEN body.top ELSE <<>>

BraveResults_NoFallback(body) ==
    IF body.web = "results" THEN BraveLoop(body.nested) ELSE <<>>
\* if "web" in data and "results" in data["web"]: ... else: ...
BraveResults(body) ==
    IF body.web = "results" THEN BraveLoop(body.nested) ELSE BraveLoop(TopLevel(body))

SearxngResults(body) == SearxngLoop(TopLevel(body))

(***************************************************************************)
(* One attempt of a provider search: the decorated function body.          *)
(***************************************************************************)
SearchError(m, st) == [type |-> "SearchError", msg |-> m, status |-> st]
NoError == [type |-> "none", msg |-> "", status |-> 0]

Returned(rs) == [ok |-> TRUE, results |-> rs, error |-> NoError]
Raised(e) == [ok |-> FALSE, results |-> <<>>, error |-> e]

\* whether the attempt gets as far as client.get
BraveSends(t) == Truthy(t.brave_api_key)
SearxngSends(t) == Truthy(t.searxng_base_url)

search_brave(t, resp) ==
    IF ~BraveSends(t) THEN Raised(SearchError("BRAVE_API_KEY not set", 0))
    ELSE IF resp.kind = "http"
         THEN Raised(SearchError("Brave API error", resp.status))
    ELSE IF resp.kind = "timeout"
         THEN Raised(SearchError("Brave API request timed out", 0))
    ELSE IF resp.kind = "transport"
         THEN Raised(SearchError("Unexpected error in Brave search", 0))
    ELSE Returned(BraveResults(resp.body))

\* What response.raise_for_status() and response.json() hand back on a success
\* status: plain objects (the response, the decoded body), httpx.Response
\* having no coroutine methods of these names.
SyncReturn == "object"
\* await x raises TypeError unless x is awaitable
AwaitRaises(x) == x \notin {"coroutine", "future", "task"}

search_searxng(t, resp) ==
    IF ~SearxngSends(t) THEN Raised(SearchError("SEARXNG_BASE_URL not set", 0))
    ELSE IF resp.kind = "http"
         THEN Raised(SearchError("SearXNG API error", resp.status))
    ELSE IF resp.kind = "timeout"
         THEN Raised(SearchError("SearXNG API request timed out", 0))
    ELSE IF resp.kind = "transport"
         THEN Raised(SearchError("Unexpected error in SearXNG search", 0))
    ELSE IF AwaitRaises(SyncReturn)
         THEN Raised(SearchError("Unexpected error in SearXNG search", 0))
    ELSE Returned(SearxngResults(resp.body))

(***************************************************************************)
(* The retry decorator (tenacity).                                         *)
(***************************************************************************)
ShouldStop_AfterTwo(attempt_number) == attempt_number >= StopAfterAttempt - 1
\* stop_after_attempt(3)
ShouldStop(attempt_number) == attempt_number >= StopAfterAttempt

WaitExponential_Doubling(attempt_number) ==
    Min(WaitMin * Pow(WaitExpBase, attempt_number - 1), WaitMax)
\* wait_exponential(multiplier=1, min=4, max=10), asked after the failed attempt
\* attempt_number: multiplier * 2^(attempt_number - 1), raised to min, cut to max
WaitExponential(attempt_number) ==
    Max(Max(0, WaitMin),
        Min(WaitMultiplier * Pow(WaitExpBase, attempt_number - 1), WaitMax))

\* reraise=True: the exception of the last attempt is raised as it is
Reraise(errors) == errors[Len(errors)]

(***************************************************************************)
(* State.                                                                  *)
(*   env        os.environ: the variables the program reads                *)
(*   tool       the WebSearchTool of the process (state "none" before      *)
(*              construction, "failed" when __init__ raised)               *)
(*   llm        the module-level LLMService, llm_service                   *)
(*   call       the search call in progress or last finished               *)
(*   contacted  the search vendors an HTTP GET was sent to                 *)
(*   gen        the last generation request: vendor and prompt             *)
(*   turn       the chat turn process_chat is handling                     *)
(*   reply      the POST /search exchange between the app and the server   *)
(***************************************************************************)
NoTool ==
    [state |-> "none", provider |-> "none", brave_api_key |-> Unset,
     searxng_base_url |-> Unset, error |-> NoError]

NoLLM == [state |-> "none", provider |-> "none", openai_api_key |-> "", error |-> ""]

IdleCall ==
    [pc |-> "idle", fn |-> "none", query |-> "", attempt_number |-> 0,
     errors |-> <<>>, delays |-> <<>>, resp |-> NoResponse, results |-> <<>>,
     raised |-> NoError]

NoGen ==
    [vendor |-> "none", prompt |-> <<>>, query |-> "", given |-> FALSE, results |-> <<>>]

\* pc: "idle", "searching" (awaiting perform_search), "generating" (awaiting
\* get_ai_response) or "done"; search: how perform_search ended for the turn,
\* "pending" while it is awaited, "skipped" when it was not called
NoTurn ==
    [pc |-> "idle", prompt |-> "", perform_web_search |-> FALSE, search |-> "none",
     search_results |-> <<>>, message |-> ""]

\* state: "none", "requested" (the POST is on its way), "refused" (no server
\* took it), "serving" (the endpoint awaits agent.search_web) or "done"
\* (status, records and error are the response)
NoReply == [state |-> "none", query |-> "", status |-> 0, records |-> <<>>, error |-> ""]

Env(b, s, l, o) ==
    [BRAVE_API_KEY |-> b, SEARXNG_BASE_URL |-> s, LLM_PROVIDER |-> l,
     OPENAI_API_KEY |-> o]

(***************************************************************************)
(* WebSearchTool.__init__                                                  *)
(***************************************************************************)
SelectProvider_SearxngFirst(brave_api_key, searxng_base_url) ==
    IF Truthy(searxng_base_url) THEN "searxng" ELSE "brave"
\* self.provider = "brave" if self.brave_api_key else "searxng"
SelectProvider(brave_api_key, searxng_base_url) ==
    IF Truthy(brave_api_key) THEN "brave" ELSE "searxng"

NewTool(e) ==
    LET k == e.BRAVE_API_KEY
        u == e.SEARXNG_BASE_URL
    IN IF ~(Truthy(k) \/ Truthy(u))
       THEN [NoTool EXCEPT !.state = "failed",
                           !.error = SearchError("No search provider configured", 0)]
       ELSE [state |-> "ok", provider |-> SelectProvider(k, u), brave_api_key |-> k,
             searxng_base_url |-> u, error |-> NoError]

\* WebSearchAgent() at the import of server.py builds the one WebSearchTool
Construct ==
    /\ tool.state = "none"
    /\ tool' = NewTool(env)
    /\ UNCHANGED <<env, llm, call, contacted, gen, turn, reply>>

(***************************************************************************)
(* WebSearchTool.search and the retried provider call under it.            *)
(***************************************************************************)
Dispatch_ByEnvironment(t, e) == SelectProvider(e.BRAVE_API_KEY, e.SEARXNG_BASE_URL)
\* if self.provider == "brave": search_brave(query) else: search_searxng(query)
Dispatch(t, e) == IF t.provider = "brave" THEN "brave" ELSE "searxng"

\* search(query) is entered: the provider function is chosen and its first
\* attempt is due
Search(q) ==
    /\ tool.state = "ok"
    /\ call.pc \in {"idle", "returned", "raised"}
    /\ call' = [IdleCall EXCEPT !.pc = "running", !.fn = Dispatch(tool, env),
                                !.query = q]
    /\ UNCHANGED <<env, tool, llm, contacted, gen, turn, reply>>

AttemptOutcome(fn, t, resp) ==
    IF fn = "brave" THEN search_brave(t, resp) ELSE search_searxng(t, resp)

Sends(fn, t) == IF fn = "brave" THEN BraveSends(t) ELSE SearxngSends(t)

\* One attempt of the retried function, with the upstream answering resp, and
\* the decorator's decision after it: return the results, raise the last
\* error, or sleep and go round again.
Attempt(resp) ==
    /\ call.pc = "running"
    /\ LET n == call.attempt_number + 1
           out == AttemptOutcome(call.fn, tool, resp)
           errs == Append(call.errors, out.error)
       IN /\ call' =
                IF out.ok
                THEN [call EXCEPT !.pc = "returned", !.attempt_number = n,
                                  !.resp = resp, !.results = out.results]
                ELSE IF ShouldStop(n)
                THEN [call EXCEPT !.pc = "raised", !.attempt_number = n,
                                  !.resp = resp, !.errors = errs,
                                  !.raised = Reraise(errs)]
                ELSE [call EXCEPT !.attempt_number = n, !.resp = resp,
                                  !.errors = errs,
                                  !.delays = Append(call.delays, WaitExponential(n))]
          /\ contacted' =
                IF Sends(call.fn, tool) THEN contacted \cup {call.fn} ELSE contacted
    /\ UNCHANGED <<env, tool, llm, gen, turn, reply>>

(***************************************************************************)
(* The search specification: one process, its tool and its search calls.   *)
(***************************************************************************)
Init ==
    /\ env \in {Env(b, s, Unset, Unset) : b \in {Unset, "key"}, s \in {Unset, "url"}}
    /\ tool = NoTool
    /\ llm = NoLLM
    /\ call = IdleCall
    /\ contacted = {}
    /\ gen = NoGen
    /\ turn = NoTurn
    /\ reply = NoReply

Next ==
    \/ Construct
    \/ \E q \in Queries : Search(q)
    \/ \E resp \in Responses : Attempt(resp)

Spec == Init /\ [][Next]_vars

(***************************************************************************)
(* LLMService (llm_service.py) and the provider selector of the UI.        *)
(***************************************************************************)
\* os.getenv(name, default)
GetEnv(v, default) == IF v = Unset THEN default ELSE v

\* str.lower on the selector values the model enumerates
Lower(v) ==
    IF v = "OpenAI" THEN "openai"
    ELSE IF v = "OLLAMA" THEN "ollama"
    ELSE v

\* LLMService.__init__
NewLLM(e) ==
    LET provider == Lower(GetEnv(e.LLM_PROVIDER, "ollama"))
        key == GetEnv(e.OPENAI_API_KEY, "")
    IN IF provider = "openai" /\ key = ""
       THEN [NoLLM EXCEPT !.state = "failed",
                          !.error = "ValueError: OPENAI_API_KEY is required"]
       ELSE [state |-> "ok", provider |-> provider, openai_api_key |-> key,
             error |-> ""]

\* llm_service = LLMService(), run once at the import of llm_service
ConstructLLM ==
    /\ llm.state = "none"
    /\ llm' = NewLLM(env)
    /\ UNCHANGED <<env, tool, call, contacted, gen, turn, reply>>

\* LLMService.generate: _generate_openai when self.provider is openai, else
\* _generate_ollama
GenerateVendor(l) == IF l.provider = "openai" THEN "openai" ELSE "ollama"

\* The sidebar selectbox, run on every rerun of the app script, which is
\* after llm_service was imported: it writes LLM_PROVIDER into os.environ.
UISelect(choice) ==
    /\ llm.state = "ok"
    /\ env' = [env EXCEPT !.LLM_PROVIDER =
                              IF choice = "OpenAI" THEN "openai" ELSE "ollama"]
    /\ UNCHANGED <<tool, llm, call, contacted, gen, turn, reply>>

\* a later change of the environment of the running process
\* (os.environ[...] = ..., del os.environ[...])
SetEnv(name, v) ==
    /\ env[name] # v
    /\ env' = [env EXCEPT ![name] = v]
    /\ UNCHANGED <<tool, llm, call, contacted, gen, turn, reply>>

(***************************************************************************)
(* Prompt composition.  A prompt is the sequence of its tokens: the fixed  *)
(* pieces of the template, the "Source i:" labels, the bracket markers     *)
(* "[i]" and the embedded values (query, title, url, snippet).             *)
(***************************************************************************)
Tok(kind, n, s) == [kind |-> kind, n |-> n, s |-> s]
Text(s) == Tok("text", 0, s)
Value(s) == Tok("value", 0, s)
\* "Source {n}:"
SourceTok(n) == Tok("Source", n, "")
\* "[n]"
CiteTok(n) == Tok("cite", n, "")

SourceLabel_ZeroBased(i) == i
\* the i+1 of f"Source {i+1}: ...", i being enumerate's index from 0
SourceLabel(i) == i + 1

\* f"Source {i+1}: {res['title']}\nURL: {res['url']}\nContent: {res['snippet']}"
SourceBlock(i, res) ==
    <<SourceTok(SourceLabel(i)), Value(res.title), Text("URL:"), Value(res.url),
      Text("Content:"), Value(res.snippet)>>

\* "\n\n".join(...)
RECURSIVE Join(_)
Join(blocks) ==
    IF blocks = <<>> THEN <<>>
    ELSE IF Len(blocks) = 1 THEN blocks[1]
    ELSE blocks[1] \o <<Text("\n\n")>> \o Join(Tail(blocks))

\* the context of generate_web_aware_response: enumerate(search_results)
Context(search_results) ==
    Join([k \in 1..Len(search_results) |-> SourceBlock(k - 1, search_results[k])])

\* the prompt of generate_web_aware_response
WebAwarePrompt(query, search_results) ==
    <<Text("You are a helpful AI assistant that can answer questions using web search results."),
      Text("User's question:"), Value(query),
      Text("Here are some relevant search results:")>>
    \o Context(search_results)
    \o <<Text("Based on the above information, please provide a clear and concise answer to the user's question."),
         Text("If the search results don't contain enough information to answer the question, please say so."),
         Text("Include relevant source numbers (e.g.,"), CiteTok(1), CiteTok(2),
         Text(") to cite your information."),
         Text("Answer:")>>

\* f"User: {query}\n\nAssistant:"
PlainPrompt(query) == <<Text("User:"), Value(query), Text("Assistant:")>>

UsesContext_Always(given, search_results) == TRUE
\* if search_results and len(search_results) > 0; given is FALSE for None
UsesContext(given, search_results) == given /\ Len(search_results) > 0

\* get_ai_response(query, search_results): the prompt it hands to
\* llm_service.generate
ComposedPrompt(query, given, search_results) ==
    IF UsesContext(given, search_results)
    THEN WebAwarePrompt(query, search_results)
    ELSE PlainPrompt(query)

\* the request llm_service.generate sends for get_ai_response's prompt
GenRequest(query, given, search_results) ==
    [vendor |-> GenerateVendor(llm),
     prompt |-> ComposedPrompt(query, given, search_results),
     query |-> query, given |-> given, results |-> search_results]

\* get_ai_response, down to the request sent to the generation vendor
GetAiResponse(query, given, search_results) ==
    /\ llm.state = "ok"
    /\ gen' = GenRequest(query, given, search_results)
    /\ UNCHANGED <<env, tool, llm, call, contacted, turn, reply>>

(***************************************************************************)
(* The lifetime specification: construction of the tool and of the         *)
(* generation service, then searches and generations interleaved with      *)
(* changes of the environment and of the selector of the UI.               *)
(***************************************************************************)
ProviderSelectors == {Unset, "ollama", "openai", "OpenAI", "azure"}

InitLifetime ==
    /\ env \in {Env(b, s, l, o) : b \in {Unset, "", "key"}, s \in {Unset, "", "url"},
                                  l \in ProviderSelectors, o \in {Unset, "sk"}}
    /\ tool = NoTool
    /\ llm = NoLLM
    /\ call = IdleCall
    /\ contacted = {}
    /\ gen = NoGen
    /\ turn = NoTurn
    /\ reply = NoReply

NextLifetime ==
    \/ Construct
    \/ ConstructLLM
    \/ \E v \in {Unset, "key"} : SetEnv("BRAVE_API_KEY", v)
    \/ \E v \in {Unset, "url"} : SetEnv("SEARXNG_BASE_URL", v)
    \/ \E choice \in {"Ollama (Local)", "OpenAI"} : UISelect(choice)
    \/ Search("q1")
    \/ \E resp \in FewResponses : Attempt(resp)
    \/ GetAiResponse("q1", FALSE, <<>>)

SpecLifetime == InitLifetime /\ [][NextLifetime]_vars

(***************************************************************************)
(* The composition specification: the generation service of one process    *)
(* and the prompts get_ai_response composes.                               *)
(***************************************************************************)
\* a search result as /search hands it to the app (a score may ride along
\* when the records come straight from search_web)
Hit(t, u, s, sc) == [title |-> t, url |-> u, snippet |-> s, score |-> sc]

Hits == {Hit("T1", "U1", "S1", 2), Hit("T2", "U2", "S2", 9), Hit("T1", "U3", "", 5)}

HitSeqs == SeqsUpTo(Hits, MaxResults)

InitCompose ==
    /\ env \in {Env(Unset, Unset, l, "sk") : l \in {Unset, "openai"}}
    /\ tool = NoTool
    /\ llm = NoLLM
    /\ call = IdleCall
    /\ contacted = {}
    /\ gen = NoGen
    /\ turn = NoTurn
    /\ reply = NoReply

NextCompose ==
    \/ ConstructLLM
    \/ \E q \in Queries, rs \in HitSeqs : GetAiResponse(q, TRUE, rs)
    \/ \E q \in Queries : GetAiResponse(q, FALSE, <<>>)

SpecCompose == InitCompose /\ [][NextCompose]_vars

(***************************************************************************)
(* The chat specification: the app's process_chat and the server's /search *)
(* endpoint with the retried provider search under it.                     *)
(***************************************************************************)
\* httpx timeout of one provider request, in seconds
AttemptTimeout == 10
\* httpx timeout of the app's POST /search, in seconds
ClientTimeout == 30

\* the keywords process_chat looks for in prompt.lower()
Keywords ==
    {"what", "when", "where", "who", "how", "why", "current", "latest", "recent",
     "update"}

ChatPrompts == {"Show me the news", "Tell a joke"}

\* the keywords that are substrings of prompt.lower(), for the prompts the
\* model enumerates ("show" holds "how")
KeywordsIn(prompt) == IF prompt = "Show me the news" THEN {"how"} ELSE {}

\* use_web_search and any(keyword in prompt.lower() for keyword in [...])
PerformWebSearch(use_web_search, prompt) ==
    use_web_search /\ KeywordsIn(prompt) \cap Keywords # {}

\* WebSearchTool.search over a finished provider call: the results are
\* returned, a SearchError is raised again as it is
SearchOutcome(c) == IF c.pc = "returned" THEN Returned(c.results) ELSE Raised(c.raised)

search_web_SwallowsError(out) == Returned(out.results)
\* WebSearchAgent.search_web: the results as dictionaries of the same fields,
\* or an Exception whose message is "Search error: " and the SearchError's
search_web(out) ==
    IF out.ok THEN Returned(out.results)
    ELSE Raised([type |-> "Exception", prefix |-> "Search error: ",
                 msg |-> out.error.msg, status |-> out.error.status])

\* the /search endpoint: title, url and snippet of every result, or
\* HTTPException(status_code=500) with the error in its detail
EndpointResponse(out) ==
    IF out.ok
    THEN [state |-> "done", status |-> 200,
          records |-> [i \in 1..Len(out.results) |->
                          [title |-> out.results[i].title, url |-> out.results[i].url,
                           snippet |-> out.results[i].snippet]],
          error |-> ""]
    ELSE [state |-> "done", status |-> 500, records |-> <<>>, error |-> out.error.msg]

\* what perform_search returns: response.json() of a success status, [] after
\* raise_for_status or any other exception
perform_search(r) == IF r.state = "done" /\ r.status = 200 THEN r.records ELSE <<>>

RECURSIVE Sum(_)
Sum(s) == IF s = <<>> THEN 0 ELSE s[1] + Sum(Tail(s))

\* the latest the attempt now running can end, in seconds after the call was
\* entered: every attempt so far and this one lasting their whole timeout,
\* and the sleeps between them
LatestFinish(c) == Sum(c.delays) + AttemptTimeout * (c.attempt_number + 1)

\* process_chat up to its first await: perform_search(prompt) is sent, or the
\* search is left out and get_ai_response(prompt, None) is called
ProcessChat(prompt, use_web_search) ==
    /\ llm.state = "ok"
    /\ turn.pc \in {"idle", "done"}
    /\ reply.state \in {"none", "done", "refused"}
    /\ IF PerformWebSearch(use_web_search, prompt)
       THEN /\ turn' = [NoTurn EXCEPT !.pc = "searching", !.prompt = prompt,
                                      !.perform_web_search = TRUE,
                                      !.search = "pending"]
            /\ reply' = [NoReply EXCEPT !.state = "requested", !.query = prompt]
            /\ gen' = gen
       ELSE /\ turn' = [NoTurn EXCEPT !.pc = "generating", !.prompt = prompt,
                                      !.search = "skipped"]
            /\ reply' = NoReply
            /\ gen' = GenRequest(prompt, FALSE, <<>>)
    /\ UNCHANGED <<env, tool, llm, call, contacted>>

\* the endpoint takes the request: agent.search_web(query) enters
\* WebSearchTool.search
Receive ==
    /\ reply.state = "requested"
    /\ tool.state = "ok"
    /\ call.pc \in {"idle", "returned", "raised"}
    /\ call' = [IdleCall EXCEPT !.pc = "running", !.fn = Dispatch(tool, env),
                                !.query = reply.query]
    /\ reply' = [reply EXCEPT !.state = "serving"]
    /\ UNCHANGED <<env, tool, llm, contacted, gen, turn>>

\* the rest of process_chat once perform_search has returned search_results:
\* get_ai_response(prompt, search_results) is called
Generate(how, search_results) ==
    /\ turn' = [turn EXCEPT !.pc = "generating", !.search = how,
                            !.search_results = search_results]
    /\ gen' = GenRequest(turn.prompt, TRUE, search_results)

\* no server listens (server.py stops at its import when WebSearchAgent()
\* raises): client.post raises, perform_search returns []
ConnectFails ==
    /\ turn.pc = "searching"
    /\ reply.state = "requested"
    /\ tool.state # "ok"
    /\ reply' = [reply EXCEPT !.state = "refused"]
    /\ Generate("failed", perform_search(reply'))
    /\ UNCHANGED <<env, tool, llm, call, contacted>>

\* the endpoint answers when agent.search_web has returned or raised
Respond ==
    /\ reply.state = "serving"
    /\ call.pc \in {"returned", "raised"}
    /\ reply' = [EndpointResponse(search_web(SearchOutcome(call)))
                    EXCEPT !.query = reply.query]
    /\ UNCHANGED <<env, tool, llm, call, contacted, gen, turn>>

\* the answer of the endpoint reaches perform_search
SearchReturns ==
    /\ turn.pc = "searching"
    /\ reply.state = "done"
    /\ Generate(IF reply.status = 200 THEN "succeeded" ELSE "failed",
                perform_search(reply))
    /\ UNCHANGED <<env, tool, llm, call, contacted, reply>>

\* timeout=30.0 of client.post runs out while the endpoint has not answered:
\* perform_search returns [], the endpoint goes on with its call
ClientTimesOut ==
    /\ turn.pc = "searching"
    /\ reply.state = "serving"
    /\ call.pc = "running"
    /\ LatestFinish(call) > ClientTimeout
    /\ Generate("failed", perform_search(reply))
    /\ UNCHANGED <<env, tool, llm, call, contacted, reply>>

\* get_ai_response returns and the answer is shown, or it raises and the
\* except branch of process_chat shows the error
GenerationReturns(ok) ==
    /\ turn.pc = "generating"
    /\ turn' = [turn EXCEPT !.pc = "done",
                            !.message = IF ok THEN "response" ELSE "error"]
    /\ UNCHANGED <<env, tool, llm, call, contacted, gen, reply>>

\* the upstream answers of the chat specification: failures, a usable item,
\* an unusable one, none
ChatResponses ==
    {Response("timeout", 0, NoBody), Response("http", 503, NoBody),
     Response("ok", 200, Body("results", <<ItemBrave>>, FALSE, <<>>)),
     Response("ok", 200, Body("results", <<ItemNullTitle>>, FALSE, <<>>)),
     Response("ok", 200, Body("absent", <<>>, TRUE, <<>>))}

InitChat ==
    /\ env \in {Env("key", Unset, Unset, Unset), Env(Unset, "url", Unset, Unset),
                Env(Unset, Unset, Unset, Unset)}
    /\ tool = NoTool
    /\ llm = NoLLM
    /\ call = IdleCall
    /\ contacted = {}
    /\ gen = NoGen
    /\ turn = NoTurn
    /\ reply = NoReply

NextChat ==
    \/ Construct
    \/ ConstructLLM
    \/ \E prompt \in ChatPrompts, use_web_search \in BOOLEAN :
          ProcessChat(prompt, use_web_search)
    \/ Receive
    \/ ConnectFails
    \/ \E resp \in ChatResponses : Attempt(resp)
    \/ Respond
    \/ SearchReturns
    \/ ClientTimesOut
    \/ \E ok \in BOOLEAN : GenerationReturns(ok)

SpecChat == InitChat /\ [][NextChat]_vars

(***************************************************************************)
(* Claims about the retried provider searches, checked under Spec.         *)
(***************************************************************************)
\* the array of the body that search_brave iterates
BraveArray(body) == IF body.web = "results" THEN body.nested ELSE TopLevel(body)

\* an item search_brave can turn into a SearchResults: a mapping whose title,
\* url and description are not null
BraveNormalizable(item) ==
    /\ item.mapping
    /\ item.title # Null
    /\ item.url # Null
    /\ item.description # Null

\* C1: a retried provider search makes its attempts one after another until
\* the first success or the third failure: it never makes a 4th attempt, every
\* attempt before a return has failed, a return hands back the results of the
\* attempt that succeeded, and a raise comes after exactly 3 failed attempts
\* and carries the error of the 3rd, for every failure kind.
C1_RetryUntilSuccessOrThirdFailure ==
    /\ call.attempt_number <= 3
    /\ call.pc = "running" =>
          /\ call.attempt_number < 3
          /\ Len(call.errors) = call.attempt_number
    /\ call.pc = "returned" =>
          /\ Len(call.errors) = call.attempt_number - 1
          /\ call.resp.kind = "ok"
          /\ call.fn = "brave" => call.results = BraveLoop(BraveArray(call.resp.body))
    /\ call.pc = "raised" =>
          /\ call.attempt_number = 3
          /\ Len(call.errors) = 3
          /\ call.raised = call.errors[3]
          /\ call.raised.type = "SearchError"
          /\ call.resp.kind = "timeout" =>
                call.raised.msg \in {"Brave API request timed out",
                                     "SearXNG API request timed out"}
          /\ call.resp.kind = "http" =>
                /\ call.raised.msg \in {"Brave API error", "SearXNG API error"}
                /\ call.raised.status = call.resp.status

\* C1 witness: a call raised after a timeout, a 4xx and then a 5xx
C1_Witness ==
    /\ call.pc = "raised"
    /\ call.errors[1].msg = "Brave API request timed out"
    /\ call.errors[2].status = 404
    /\ call.raised.status = 503

\* C2 as stated: the first delay is 4 and each later delay doubles the one
\* before it, capped at 10 (4 then 8 in a call whose three attempts fail).
C2_DelaysDouble ==
    \A i \in 1..Len(call.delays) :
        call.delays[i] = IF i = 1 THEN 4 ELSE Min(2 * call.delays[i - 1], 10)

\* C2 amended: the delay after the n-th failed attempt is 2^(n-1) raised to
\* the 4-unit floor and cut to the 10-unit cap; a sleep follows each failed
\* attempt but the last, so a call whose three attempts fail sleeps 4 and 4.
C2_DelaysClamped ==
    /\ \A i \in 1..Len(call.delays) :
          call.delays[i] = Max(4, Min(Pow(2, i - 1), 10))
    /\ call.pc = "running" => Len(call.delays) = call.attempt_number
    /\ call.pc = "raised" => call.delays = <<4, 4>>

\* C2 witness: three failed attempts, two sleeps
C2_Witness ==
    /\ call.pc = "raised"
    /\ call.attempt_number = 3
    /\ Len(call.delays) = 2

\* C3: when web.results is present (here: and every item of it can be
\* normalized) search_brave returns exactly min(5, len(web.results)) results.
C3_CappedAtFive ==
    ( /\ call.pc = "returned"
      /\ call.fn = "brave"
      /\ call.resp.body.web = "results"
      /\ \A i \in 1..Len(call.resp.body.nested) :
            BraveNormalizable(call.resp.body.nested[i]) )
    => Len(call.results) = Min(5, Len(call.resp.body.nested))

\* the items of the iterated array that can be normalized, in upstream order
BraveKept == SelectSeq(BraveArray(call.resp.body), BraveNormalizable)

\* a Brave call has returned, with one result per normalizable item
BraveReturned ==
    /\ call.pc = "returned"
    /\ call.fn = "brave"
    /\ Len(call.results) = Len(BraveKept)

\* C4 as stated: a result's score is 0.0 only when the item has the score key
\* with null; a non-null score is passed through; an item without the key
\* does not get 0.0.
C4_ZeroOnlyWhenNull ==
    BraveReturned =>
        \A i \in 1..Len(call.results) :
            LET item == BraveKept[i]
                r == call.results[i]
            IN /\ (r.score = ScoreNum(0) /\ item.score # ScoreNum(0)) =>
                      item.score.tag = "null"
               /\ item.score.tag = "num" => r.score = item.score
               /\ item.score.tag = "absent" => r.score # ScoreNum(0)

\* C4 amended: a result's score is the 0.0 default exactly when the item omits
\* the score key; a key present with null gives an absent score (None), and a
\* numeric score is passed through unchanged.
C4_ZeroWhenKeyOmitted ==
    (call.pc = "returned" /\ call.fn = "brave") =>
        /\ Len(call.results) = Len(BraveKept)
        /\ \A i \in 1..Len(call.results) :
              LET item == BraveKept[i]
                  r == call.results[i]
              IN /\ item.score.tag = "absent" => r.score = ScoreNum(0)
                 /\ item.score.tag = "null" => r.score = NoScore
                 /\ item.score.tag = "num" => r.score = item.score

\* C4 witness: a response with a keyless and a null-score item was normalized
C4_Witness ==
    /\ BraveReturned
    /\ call.resp.body.web = "results"
    /\ call.resp.body.nested = <<ItemBare, ItemNullScore>>

\* C5: on a successful SearXNG response (here: one with at least one item, all
\* of them normalizable) search_searxng returns one result per item of the
\* top-level results array, in order, with title and url copied, snippet =
\* content and no score.
C5_SearxngNormalizes ==
    ( /\ call.fn = "searxng"
      /\ call.attempt_number >= 1
      /\ call.resp.kind = "ok"
      /\ TopLevel(call.resp.body) # <<>>
      /\ \A i \in 1..Len(TopLevel(call.resp.body)) :
            LET item == TopLevel(call.resp.body)[i]
            IN item.mapping /\ Null \notin {item.title, item.url, item.content} )
    => /\ call.pc = "returned"
       /\ Len(call.results) = Len(TopLevel(call.resp.body))
       /\ \A i \in 1..Len(call.results) :
             LET item == TopLevel(call.resp.body)[i]
             IN call.results[i] =
                    SearchResult(Get(item.title, ""), Get(item.url, ""),
                                 Get(item.content, ""), NoScore)

\* C6: when every item of web.results carries the keys title, url, snippet and
\* score, search_brave returns one result per item with the item's values for
\* those keys.
C6_SnippetKeyCopied ==
    ( /\ call.pc = "returned"
      /\ call.fn = "brave"
      /\ call.resp.body.web = "results"
      /\ \A i \in 1..Len(call.resp.body.nested) :
            LET item == call.resp.body.nested[i]
            IN /\ item.mapping
               /\ {item.title, item.url, item.snippet} \cap {Absent, Null} = {}
               /\ item.score.tag = "num" )
    => /\ Len(call.results) = Len(call.resp.body.nested)
       /\ \A i \in 1..Len(call.results) :
             LET item == call.resp.body.nested[i]
             IN call.results[i] =
                    SearchResult(item.title, item.url, item.snippet, item.score)

(***************************************************************************)
(* Claims about provider selection, checked under SpecLifetime.            *)
(***************************************************************************)
\* a credential or base URL counts as present when the variable is set to a
\* non-empty value
Present(v) == v \notin {Unset, ""}

\* C7: constructing the search tool selects brave whenever its API key is
\* present (also when the SearXNG base URL is present too), searxng when only
\* the base URL is present, and fails with the "No search provider
\* configured" error, producing no tool, when neither is present.
C7_ProviderPrecedence ==
    [][ (tool.state = "none" /\ tool'.state # "none") =>
            LET b == Present(env.BRAVE_API_KEY)
                u == Present(env.SEARXNG_BASE_URL)
            IN /\ b => (tool'.state = "ok" /\ tool'.provider = "brave")
               /\ (~b /\ u) => (tool'.state = "ok" /\ tool'.provider = "searxng")
               /\ (~b /\ ~u) =>
                     /\ tool'.state = "failed"
                     /\ tool'.provider = "none"
                     /\ tool'.error.msg = "No search provider configured" ]_vars

\* C7 witness: a tool built with both the key and the base URL present
C7_Witness ==
    /\ tool.state = "ok"
    /\ tool.provider = "brave"
    /\ Present(tool.brave_api_key)
    /\ Present(tool.searxng_base_url)

Positions(prompt, kind) == {k \in DOMAIN prompt : prompt[k].kind = kind}

\* the numbers carried by the tokens of a kind
Numbers(prompt, kind) == {prompt[k].n : k \in Positions(prompt, kind)}

\* the last generation request carried search results into the prompt
WithResults == gen.vendor # "none" /\ gen.given /\ Len(gen.results) >= 1

\* the last generation request was composed from zero search results
WithoutResults == gen.vendor # "none" /\ (~gen.given \/ Len(gen.results) = 0)

\* C9: the context-augmented prompt holds exactly N source blocks, the block
\* labelled Source i holding title, url and snippet of the i-th input result,
\* the labels ascending in the prompt: input order, nothing dropped, merged
\* or reordered.  With no results the context holds no block.
C9_SourceBlocksInInputOrder ==
    /\ WithResults =>
          LET p == gen.prompt
              N == Len(gen.results)
              src == Positions(p, "Source")
          IN /\ Cardinality(src) = N
             /\ \A i \in 1..N :
                   \E k \in src :
                      /\ p[k].n = i
                      /\ p[k + 1] = Value(gen.results[i].title)
                      /\ p[k + 3] = Value(gen.results[i].url)
                      /\ p[k + 5] = Value(gen.results[i].snippet)
             /\ \A k1, k2 \in src : k1 < k2 => p[k1].n < p[k2].n
    /\ \A q \in Queries : Positions(WebAwarePrompt(q, <<>>), "Source") = {}

\* C9 witness: three results, one of them twice, the lower score first
C9_Witness ==
    /\ WithResults
    /\ Len(gen.results) = 3
    /\ gen.results[1] = gen.results[3]
    /\ gen.results[1].score < gen.results[2].score

\* C10 as stated: with zero results the prompt has no Source token and no
\* bracket marker; with N >= 1 results its bracket markers are [1] .. [N].
C10_MarkersOneToN ==
    /\ WithoutResults =>
          /\ Positions(gen.prompt, "Source") = {}
          /\ Positions(gen.prompt, "cite") = {}
    /\ WithResults => Numbers(gen.prompt, "cite") = 1..Len(gen.results)

\* C10 amended: with zero results the prompt has no Source token and no
\* bracket marker; with N >= 1 results it has the labels Source 1 .. Source N
\* and, whatever N is, the two bracket markers [1] and [2] that the citing
\* instruction gives as its example.
C10_LabelsOneToN_MarkersFixed ==
    /\ WithoutResults =>
          /\ Positions(gen.prompt, "Source") = {}
          /\ Positions(gen.prompt, "cite") = {}
    /\ WithResults =>
          /\ Numbers(gen.prompt, "Source") = 1..Len(gen.results)
          /\ Numbers(gen.prompt, "cite") = {1, 2}

\* C10 witness: one result, and a marker [2] in the prompt
C10_Witness ==
    /\ WithResults
    /\ Len(gen.results) = 1
    /\ 2 \in Numbers(gen.prompt, "cite")

(***************************************************************************)
(* Claims about the generation service, checked under SpecLifetime.        *)
(***************************************************************************)
\* the two selector values LLMProvider declares
RecognisedProviders == {"openai", "ollama"}

\* C13: a generation service exists only for a recognised selector, and for
\* the openai selector only with a credential; no generation request is ever
\* served by a service whose selector is not recognised.
C13_InvalidSelectorRejected ==
    /\ llm.state = "ok" =>
          /\ llm.provider \in RecognisedProviders
          /\ llm.provider = "openai" => llm.openai_api_key # ""
    /\ gen.vendor # "none" => llm.provider \in RecognisedProviders

(***************************************************************************)
(* Claims about malformed items and the fallback array, under Spec.        *)
(***************************************************************************)
\* an item search_searxng can turn into a SearchResults: a mapping whose title,
\* url and content are not null
SearxngNormalizable(item) ==
    /\ item.mapping
    /\ item.title # Null
    /\ item.url # Null
    /\ item.content # Null

\* the result an item is to become under Variant A: title and url copied,
\* description as the snippet, an omitted key as the empty string; the score
\* as C4 has it
BraveExpected(item) ==
    SearchResult(Get(item.title, ""), Get(item.url, ""), Get(item.description, ""),
                 IF item.score.tag = "absent" THEN ScoreNum(0)
                 ELSE IF item.score.tag = "null" THEN NoScore
                 ELSE item.score)

\* the result an item is to become under Variant B
SearxngExpected(item) ==
    SearchResult(Get(item.title, ""), Get(item.url, ""), Get(item.content, ""),
                 NoScore)

\* C14: on a successful upstream response of either variant the call does not
\* fail: it returns exactly the normalizable items, in upstream order, each
\* with a non-null title, url and snippet, an omitted key having become "".
C14_MalformedItemsDropped ==
    (call.attempt_number >= 1 /\ call.resp.kind = "ok") =>
        LET kept == IF call.fn = "brave"
                    THEN SelectSeq(BraveArray(call.resp.body), BraveNormalizable)
                    ELSE SelectSeq(TopLevel(call.resp.body), SearxngNormalizable)
        IN /\ call.pc = "returned"
           /\ Len(call.results) = Len(kept)
           /\ \A i \in 1..Len(call.results) :
                 /\ call.results[i] =
                       IF call.fn = "brave" THEN BraveExpected(kept[i])
                       ELSE SearxngExpected(kept[i])
                 /\ Null \notin {call.results[i].title, call.results[i].url,
                                 call.results[i].snippet}

\* C15: when web.results is absent (no web key, or a web object without a
\* results key) a successful Brave attempt returns the top-level results
\* array under the mapping of the nested case, which is what the same array
\* under web.results gives; with neither array it returns the empty sequence.
C15_FallbackToTopLevel ==
    (call.fn = "brave" /\ call.attempt_number >= 1 /\ call.resp.kind = "ok"
        /\ call.resp.body.web # "results") =>
        LET top == IF call.resp.body.hasTop THEN call.resp.body.top ELSE <<>>
            kept == SelectSeq(top, BraveNormalizable)
        IN /\ call.pc = "returned"
           /\ Len(call.results) = Len(kept)
           /\ \A i \in 1..Len(kept) : call.results[i] = BraveExpected(kept[i])
           /\ call.results = BraveLoop(top)
           /\ ~call.resp.body.hasTop => call.results = <<>>

\* C15 witness: a web object without a results key, and the top-level item
\* came back
C15_Witness ==
    /\ call.pc = "returned"
    /\ call.fn = "brave"
    /\ call.resp.body.web = "noresults"
    /\ call.resp.body.hasTop
    /\ Len(call.results) = 1

(***************************************************************************)
(* Claims about the chat turn and the /search endpoint, under SpecChat.    *)
(***************************************************************************)
\* the items of the upstream answer the provider function of the call can
\* turn into results
Usable(c) ==
    IF c.fn = "brave" THEN SelectSeq(BraveArray(c.resp.body), BraveNormalizable)
    ELSE SelectSeq(TopLevel(c.resp.body), SearxngNormalizable)

\* the provider call under the /search request has ended: it returned, or it
\* raised after its third failed attempt
ProviderCallEnded ==
    \/ call.pc = "returned"
    \/ call.pc = "raised" /\ call.attempt_number = StopAfterAttempt

\* C11: once the generation call of a turn has started, the search of the turn
\* has resolved: it was skipped, or no server took it, or the endpoint has
\* answered after the provider call returned or failed its third attempt.
\* Generation is called with the prompt of the turn, and after a failed or a
\* skipped search its prompt is the plain one, without context.
C11_GenerationAfterSearchResolved ==
    /\ turn.pc = "searching" => turn.search = "pending"
    /\ turn.pc \in {"generating", "done"} =>
          /\ turn.search \in {"succeeded", "failed", "skipped"}
          /\ turn.search = "skipped" <=> ~turn.perform_web_search
          /\ turn.perform_web_search =>
                \/ reply.state = "refused"
                \/ reply.state = "done" /\ ProviderCallEnded
    /\ turn.pc = "generating" =>
          /\ gen.query = turn.prompt
          /\ turn.search \in {"failed", "skipped"} =>
                gen.prompt = PlainPrompt(turn.prompt)

\* C12: a provider call that failed its third attempt is an error at every
\* layer, SearchError out of WebSearchTool.search, Exception out of
\* search_web, status 500 out of /search, and never a success; a success with
\* no results comes only from an upstream that answered with a success status
\* and no usable item.
C12_FailureNeverEmptySuccess ==
    /\ call.pc = "raised" =>
          /\ call.attempt_number = StopAfterAttempt
          /\ ~SearchOutcome(call).ok
          /\ SearchOutcome(call).error = call.raised
          /\ ~search_web(SearchOutcome(call)).ok
          /\ search_web(SearchOutcome(call)).error.msg = call.raised.msg
          /\ EndpointResponse(search_web(SearchOutcome(call))).status = 500
    /\ (call.pc = "returned" /\ call.results = <<>>) =>
          /\ call.resp.kind = "ok"
          /\ Usable(call) = <<>>
          /\ search_web(SearchOutcome(call)) = Returned(<<>>)
    /\ reply.state = "done" =>
          /\ call.pc \in {"returned", "raised"}
          /\ reply.status = 500 <=> call.pc = "raised"
          /\ reply.status = 200 <=> call.pc = "returned"
          /\ reply.status = 500 => reply.error = call.raised.msg /\ reply.error # ""
          /\ reply.status = 200 => Len(reply.records) = Len(call.results)
          /\ (reply.status = 200 /\ reply.records = <<>>) =>
                call.resp.kind = "ok" /\ Usable(call) = <<>>

\* C12 witness: the endpoint has answered 500 for a call that raised after
\* three failed attempts
C12_Witness ==
    /\ reply.state = "done"
    /\ reply.status = 500
    /\ call.pc = "raised"
    /\ call.attempt_number = StopAfterAttempt
    /\ Len(call.errors) = StopAfterAttempt

====
